---- MODULE Spec2Model ----
(***************************************************************************)
(* Model of complex/cargo/list/src/items.rs: the Item record and the       *)
(* extern "C" entry points that create, destroy, read and write it through *)
(* raw pointers.                                                           *)
(*                                                                         *)
(* Pointers are integers: NULL is 0, Item boxes live at the addresses      *)
(* 1..MaxItems and the Vec<Label> boxes handed out by item_get_labels at   *)
(* the addresses after them.  A Vec owns a heap buffer (bufs); a Rust      *)
(* String is a sequence of code points, a C string a sequence of bytes.    *)
(* The entry points modelled are the item_* family; the a_item_* family    *)
(* for Android repeats them on Box<Item> and &mut Item.                    *)
(***************************************************************************)
EXTENDS Integers, Sequences, FiniteSets, TLC

VARIABLES status, items, seqs, bufs, ret, fault

vars == <<status, items, seqs, bufs, ret, fault>>

\* ---------------------------------------------------------------- bounds
\* Number of addresses the allocator can hand out for Box<Item>.
MaxItems == 2
\* Number of addresses the allocator can hand out for Box<Vec<Label>>.
MaxSeqs == 2
\* Largest index passed to item_label_at.
MaxIndex == 2
\* Width of a pointer (and of the i64 it is cast to), scaled down from 64.
PtrBits == 8

\* ---------------------------------------------------------------- values
NULL == 0
Addr == 1..MaxItems
SeqAddr == (MaxItems + 1)..(MaxItems + MaxSeqs)

None == [some |-> FALSE]
Some(v) == [some |-> TRUE, val |-> v]

\* time::Timespec::new(sec, nsec)
Timespec_new(sec, nsec) == [sec |-> sec, nsec |-> nsec]

\* `due_date as i64`: the address of a raw pointer read as a signed integer of
\* the pointer's width.
PtrAsI64(p) == IF p >= 2 ^ (PtrBits - 1) THEN p - 2 ^ PtrBits ELSE p

\* The labels an owning collection attaches (labels::Label is opaque here).
Labels == {"home", "work"}
LabelVecs == {<<>>, <<"home">>, <<"work", "home">>}

\* A Vec<Label> value: the heap buffer it owns.
Vec(b) == [buf |-> b]
NoBuf == [alloc |-> FALSE, elems |-> <<>>]
Buf(elems) == [alloc |-> TRUE, elems |-> elems]

NoItem == [live |-> FALSE]
NoSeq == [live |-> FALSE]

\* fault names the entry point the process died in (a panic, a crash), if any;
\* nothing runs after it, and the call that faulted returned nothing.
NoFault == "none"

\* ---------------------------------------------------------------- strings
\* ffi_utils::strings: a C string is decoded as UTF-8; a decoding error gives "".
\* One- and two-byte sequences are decoded; the byte strings below use no other.
RECURSIVE Utf8Valid(_)
Utf8Valid(bytes) ==
    IF bytes = <<>> THEN TRUE
    ELSE IF bytes[1] < 128 THEN Utf8Valid(Tail(bytes))
    ELSE IF bytes[1] >= 194 /\ bytes[1] <= 223 /\ Len(bytes) >= 2
            /\ bytes[2] >= 128 /\ bytes[2] <= 191
         THEN Utf8Valid(Tail(Tail(bytes)))
    ELSE FALSE

RECURSIVE Utf8Decode(_)
Utf8Decode(bytes) ==
    IF bytes = <<>> THEN <<>>
    ELSE IF bytes[1] < 128 THEN <<bytes[1]>> \o Utf8Decode(Tail(bytes))
    ELSE <<(bytes[1] - 192) * 64 + (bytes[2] - 128)>> \o Utf8Decode(Tail(Tail(bytes)))

RECURSIVE Utf8Encode(_)
Utf8Encode(s) ==
    IF s = <<>> THEN <<>>
    ELSE IF s[1] < 128 THEN <<s[1]>> \o Utf8Encode(Tail(s))
    ELSE <<192 + (s[1] \div 64), 128 + (s[1] % 64)>> \o Utf8Encode(Tail(s))

c_char_to_string(cchar) == IF Utf8Valid(cchar) THEN Utf8Decode(cchar) ELSE <<>>

string_to_c_char(r_string) == Utf8Encode(r_string)

\* C strings a caller passes: "", "a", "e-acute", "a e-acute", and three
\* malformed ones.
CStrs == {<<>>, <<97>>, <<195, 169>>, <<97, 195, 169>>, <<255>>, <<195>>, <<97, 128>>}

\* Pointer arguments a caller passes to the date setters: null, the lowest
\* address, and the two whose cast is the least and the greatest negative i64.
DatePtrs == {NULL, 1, 2 ^ (PtrBits - 1), 2 ^ PtrBits - 1}

\* ---------------------------------------------------------------- returns
\* ret is the value the last call that returned handed to the caller.
\* NoRet: nothing was returned (no call yet, or the call faulted); Void: the
\* call returned, and returns no value.
NoRet == [kind |-> "none"]
Void == [kind |-> "void"]
RetItem(a) == [kind |-> "item_ptr", op |-> "item_new", ptr |-> a]
RetStr(bytes) == [kind |-> "c_char_ptr", op |-> "item_get_name", bytes |-> bytes]
RetNullI64(op) == [kind |-> "i64_ptr", op |-> op, null |-> TRUE, val |-> 0]
RetBoxI64(op, v) == [kind |-> "i64_ptr", op |-> op, null |-> FALSE, val |-> v]
RetSeq(s) == [kind |-> "vec_ptr", op |-> "item_get_labels", ptr |-> s]
RetInt(n) == [kind |-> "c_int", op |-> "item_labels_count", val |-> n]
RetLabel(l) == [kind |-> "label_ptr", op |-> "item_label_at", label |-> l]

\* ---------------------------------------------------------------- Item
\* new_item with an absent date written as the timestamp zero.
new_item_zero_dates(a) ==
    [uuid |-> <<>>,
     name |-> <<>>,
     due_date |-> Some(Timespec_new(0, 0)),
     completion_date |-> Some(Timespec_new(0, 0)),
     labels |-> Vec(a)]

\* pub fn new_item() -> Item; `a` is the box the item is placed in, whose
\* label buffer the empty vec![] owns.
new_item(a) ==
    [uuid |-> <<>>,
     name |-> <<>>,
     due_date |-> None,
     completion_date |-> None,
     labels |-> Vec(a)]

IsLive(h) == h \in Addr /\ status[h] = "live"
SeqLive(s) == s \in SeqAddr /\ seqs[s] # NoSeq

\* The elements of a Vec<Label>.
Elems(v) == bufs[v.buf].elems

Init ==
    /\ status = [a \in Addr |-> "unallocated"]
    /\ items = [a \in Addr |-> NoItem]
    /\ seqs = [s \in SeqAddr |-> NoSeq]
    /\ bufs = [b \in Addr \cup SeqAddr |-> NoBuf]
    /\ ret = NoRet
    /\ fault = NoFault

\* ---------------------------------------------------------------- lifecycle
\* item_new: Box::new(new_item()) at an address the allocator has free.
item_new(a) ==
    /\ fault = NoFault
    /\ status[a] \in {"unallocated", "freed"}
    /\ ret' = RetItem(a)
    /\ status' = [status EXCEPT ![a] = "live"]
    /\ items' = [items EXCEPT ![a] = new_item(a)]
    /\ bufs' = [bufs EXCEPT ![a] = Buf(<<>>)]
    /\ UNCHANGED <<seqs, fault>>

\* What `let _ = Box::from_raw(item)` does to a live box: the Item is dropped
\* (its label buffer with it) and the allocation released.
DropBox(item) ==
    /\ ret' = Void
    /\ status' = [status EXCEPT ![item] = "freed"]
    /\ items' = [items EXCEPT ![item] = NoItem]
    /\ bufs' = [bufs EXCEPT ![items[item].labels.buf] = NoBuf]
    /\ UNCHANGED <<seqs, fault>>

\* item_destroy has no null check and no liveness check: Box::from_raw of a
\* null or already released pointer is undefined behaviour.  The process
\* either faults (the Drop impl formats the Item it reads through the
\* pointer; the allocator aborts) or carries on: with nothing released for
\* NULL, with a second deallocation of the same block otherwise.
item_destroy(item) ==
    /\ fault = NoFault
    /\ \/ /\ IsLive(item)
          /\ DropBox(item)
       \/ /\ item = NULL \/ (item \in Addr /\ status[item] \in {"freed", "freed_twice"})
          /\ ret' = NoRet
          /\ fault' = "item_destroy"
          /\ UNCHANGED <<status, items, seqs, bufs>>
       \/ /\ item = NULL
          /\ ret' = Void
          /\ UNCHANGED <<status, items, seqs, bufs, fault>>
       \/ /\ item \in Addr /\ status[item] \in {"freed", "freed_twice"}
          /\ ret' = Void
          /\ status' = [status EXCEPT ![item] = "freed_twice"]
          /\ UNCHANGED <<items, seqs, bufs, fault>>

\* ---------------------------------------------------------------- name
item_get_name(item) ==
    /\ fault = NoFault
    /\ IsLive(item)
    /\ ret' = RetStr(string_to_c_char(items[item].name))
    /\ UNCHANGED <<status, items, seqs, bufs, fault>>

\* item_set_name that keeps the old name when the argument does not decode.
item_set_name_keeping(item, name) ==
    /\ fault = NoFault
    /\ IsLive(item)
    /\ ret' = Void
    /\ items' = [items EXCEPT ![item].name =
                    IF Utf8Valid(name) THEN c_char_to_string(name) ELSE @]
    /\ UNCHANGED <<status, seqs, bufs, fault>>

item_set_name(item, name) ==
    /\ fault = NoFault
    /\ IsLive(item)
    /\ ret' = Void
    /\ items' = [items EXCEPT ![item].name = c_char_to_string(name)]
    /\ UNCHANGED <<status, seqs, bufs, fault>>

\* ---------------------------------------------------------------- dates
\* The Option<Timespec> a date setter stores for its pointer argument: the
\* pointer is tested for null and its address, not its pointee, is the seconds.
DateOfPtr(date) ==
    IF date # NULL THEN Some(Timespec_new(PtrAsI64(date), 0)) ELSE None

\* What a date getter returns for an Option<Timespec>.
DateRet(op, date) ==
    IF date.some THEN RetBoxI64(op, date.val.sec) ELSE RetNullI64(op)

\* item_get_due_date that moves the date out of the item (Option::take).
item_get_due_date_taking(item) ==
    /\ fault = NoFault
    /\ IsLive(item)
    /\ ret' = DateRet("item_get_due_date", items[item].due_date)
    /\ items' = [items EXCEPT ![item].due_date = None]
    /\ UNCHANGED <<status, seqs, bufs, fault>>

item_get_due_date(item) ==
    /\ fault = NoFault
    /\ IsLive(item)
    /\ ret' = DateRet("item_get_due_date", items[item].due_date)
    /\ UNCHANGED <<status, items, seqs, bufs, fault>>

item_set_due_date(item, due_date) ==
    /\ fault = NoFault
    /\ IsLive(item)
    /\ ret' = Void
    /\ items' = [items EXCEPT ![item].due_date = DateOfPtr(due_date)]
    /\ UNCHANGED <<status, seqs, bufs, fault>>

item_get_completion_date(item) ==
    /\ fault = NoFault
    /\ IsLive(item)
    /\ ret' = DateRet("item_get_completion_date", items[item].completion_date)
    /\ UNCHANGED <<status, items, seqs, bufs, fault>>

\* item_set_completion_date pasted from item_set_due_date with the field left.
item_set_completion_date_pasted(item, completion_date) ==
    /\ fault = NoFault
    /\ IsLive(item)
    /\ ret' = Void
    /\ items' = [items EXCEPT ![item].due_date = DateOfPtr(completion_date)]
    /\ UNCHANGED <<status, seqs, bufs, fault>>

item_set_completion_date(item, completion_date) ==
    /\ fault = NoFault
    /\ IsLive(item)
    /\ ret' = Void
    /\ items' = [items EXCEPT ![item].completion_date = DateOfPtr(completion_date)]
    /\ UNCHANGED <<status, seqs, bufs, fault>>

\* ---------------------------------------------------------------- labels
\* The owning collection fills the pub field `labels` of an Item it holds.
OwnerSetLabels(item, ls) ==
    /\ fault = NoFault
    /\ IsLive(item)
    /\ ret' = Void
    /\ bufs' = [bufs EXCEPT ![items[item].labels.buf] = Buf(ls)]
    /\ UNCHANGED <<status, items, seqs, fault>>

\* item.labels copied as a pointer, not cloned: the box shares the item's buffer.
ShareVec(v, s) == v

\* `item.labels.clone()` placed in the box at `s`: the clone owns a buffer of
\* its own, which item_get_labels fills with the item's elements.
CloneVec(v, s) == Vec(s)

\* item_get_labels; `s` is the address the allocator gives the new box.
item_get_labels(item, s) ==
    /\ fault = NoFault
    /\ IsLive(item)
    /\ seqs[s] = NoSeq
    /\ ret' = RetSeq(s)
    /\ seqs' = [seqs EXCEPT ![s] = [live |-> TRUE, vec |-> CloneVec(items[item].labels, s)]]
    /\ bufs' = [bufs EXCEPT ![s] = Buf(Elems(items[item].labels))]
    /\ UNCHANGED <<status, items, fault>>

\* The index of the last element in place of the length.
labels_last_index(elems) == IF Len(elems) = 0 THEN 0 ELSE Len(elems) - 1

\* `item.labels.len() as c_int` (the lengths here are far below 2^31).
labels_len(elems) == Len(elems)

\* Values a c_int read from memory that holds no Item can have.
GarbageInts == {-1, 0, 1, 7}

\* item_labels_count takes `item: *const Item` and reads item.labels.len().
\* Given the address of a Vec<Label> box instead, it reads the Item layout
\* out of a smaller allocation of another type: undefined behaviour, which
\* returns whatever lies there or faults.
item_labels_count(item) ==
    /\ fault = NoFault
    /\ \/ /\ IsLive(item)
          /\ ret' = RetInt(labels_len(Elems(items[item].labels)))
          /\ UNCHANGED <<status, items, seqs, bufs, fault>>
       \/ /\ SeqLive(item)
          /\ \E n \in GarbageInts : ret' = RetInt(n)
          /\ UNCHANGED <<status, items, seqs, bufs, fault>>
       \/ /\ SeqLive(item)
          /\ ret' = NoRet
          /\ fault' = "item_labels_count"
          /\ UNCHANGED <<status, items, seqs, bufs>>

\* get_unchecked in place of the checked index: past the end, whatever
\* label-shaped memory lies there.
VecIndexUnchecked(elems, index) ==
    IF index < Len(elems) THEN Some(elems[index + 1]) ELSE Some("home")

\* `label_list[index]`: Vec's Index impl checks the bound and panics.
VecIndex(elems, index) ==
    IF index < Len(elems) THEN Some(elems[index + 1]) ELSE None

\* A panic leaves the extern "C" function without a return value: the
\* process aborts or unwinds into the foreign caller.
item_label_at(label_list, index) ==
    /\ fault = NoFault
    /\ SeqLive(label_list)
    /\ LET label == VecIndex(Elems(seqs[label_list].vec), index) IN
          IF label.some
          THEN /\ ret' = RetLabel(label.val)
               /\ UNCHANGED fault
          ELSE /\ fault' = "item_label_at"
               /\ ret' = NoRet
    /\ UNCHANGED <<status, items, seqs, bufs>>

\* The caller owns the Vec<Label> behind the handle it was given: it may
\* change its contents and must release it.
CallerMutateSeq(s, ls) ==
    /\ fault = NoFault
    /\ SeqLive(s)
    /\ ret' = Void
    /\ bufs' = [bufs EXCEPT ![seqs[s].vec.buf] = Buf(ls)]
    /\ UNCHANGED <<status, items, seqs, fault>>

CallerReleaseSeq(s) ==
    /\ fault = NoFault
    /\ SeqLive(s)
    /\ ret' = Void
    /\ seqs' = [seqs EXCEPT ![s] = NoSeq]
    /\ bufs' = [bufs EXCEPT ![seqs[s].vec.buf] = NoBuf]
    /\ UNCHANGED <<status, items, fault>>

\* ---------------------------------------------------------------- specifications
Lifecycle ==
    \/ \E a \in Addr : item_new(a)
    \/ \E p \in Addr \cup {NULL} : item_destroy(p)

NameOps(strs) ==
    \/ \E h \in Addr : item_get_name(h)
    \/ \E h \in Addr, s \in strs : item_set_name(h, s)

DateOps(ptrs) ==
    \/ \E h \in Addr : item_get_due_date(h)
    \/ \E h \in Addr, p \in ptrs : item_set_due_date(h, p)
    \/ \E h \in Addr : item_get_completion_date(h)
    \/ \E h \in Addr, p \in ptrs : item_set_completion_date(h, p)

LabelOps(vecs, boxes) ==
    \/ \E h \in Addr, ls \in vecs : OwnerSetLabels(h, ls)
    \/ \E h \in Addr, s \in boxes : item_get_labels(h, s)
    \/ \E p \in Addr \cup boxes : item_labels_count(p)
    \/ \E s \in boxes, i \in 0..MaxIndex : item_label_at(s, i)
    \/ \E s \in boxes, ls \in vecs : CallerMutateSeq(s, ls)
    \/ \E s \in boxes : CallerReleaseSeq(s)

\* The name entry points, over all the C strings above.
NextName == NameOps(CStrs) \/ Lifecycle
SpecName == Init /\ [][NextName]_vars

\* The date entry points, over all the pointer arguments above.
NextDates == DateOps(DatePtrs) \/ Lifecycle
SpecDates == Init /\ [][NextDates]_vars

\* The label entry points, over all the label vectors above.
NextLabels == Lifecycle \/ LabelOps(LabelVecs, SeqAddr)
SpecLabels == Init /\ [][NextLabels]_vars

\* Every entry point together, each field with one value besides its default
\* and one box for the label sequences.
FewCStrs == {<<97>>, <<255>>}
FewDatePtrs == {NULL, 1}
FewLabelVecs == {<<>>, <<"home">>}
OneBox == {MaxItems + 1}

Next ==
    \/ Lifecycle
    \/ NameOps(FewCStrs)
    \/ DateOps(FewDatePtrs)
    \/ LabelOps(FewLabelVecs, OneBox)
Spec == Init /\ [][Next]_vars

\* ---------------------------------------------------------------- claims
\* What a caller reads off the pointer a date getter returned.
Observed(r) == IF r.null THEN None ELSE Some(r.val)

\* The due date a caller of item_get_due_date would observe in a state.
ObservedDueDate(item) == Observed(DateRet("item_get_due_date", item.due_date))
ObservedCompletionDate(item) ==
    Observed(DateRet("item_get_completion_date", item.completion_date))

\* Timestamps a host wants to store, and the pointer argument that carries an
\* optional one: NULL for absent, otherwise the timestamp in the pointer's
\* bits, which is what `due_date as i64` reads back.
HostTimestamps == {-(2 ^ (PtrBits - 1)), -1, 0, 1}
HostDates == {None} \cup {Some(t) : t \in HostTimestamps}
HostDatePtr(opt) == IF opt.some THEN opt.val % (2 ^ PtrBits) ELSE NULL

\* C1: set_due_date(h, t) then get_due_date(h) observes present t, for every
\* t including zero and negative values; set_due_date(h, absent) then
\* get_due_date(h) observes absent.
C1_DueDateRoundTrip ==
    [][\A h \in Addr, opt \in HostDates :
          item_set_due_date(h, HostDatePtr(opt)) => ObservedDueDate(items'[h]) = opt]_vars

\* C2: destroy_handle(NULL) is a safe no-op: no fault, nothing released, every
\* item and the set of live handles unchanged.
C2_DestroyNullNoop ==
    [][item_destroy(NULL) => (fault' = NoFault /\ UNCHANGED <<status, items, seqs, bufs>>)]_vars

\* C3: create, destroy, destroy again with the same handle: the second destroy
\* is a safe no-op, the allocation is released exactly once and nothing faults.
C3_DoubleDestroyNoop ==
    [][\A h \in Addr :
          (status[h] = "freed" /\ item_destroy(h))
             => (fault' = NoFault /\ status'[h] = "freed")]_vars

\* C4: the item behind a handle item_new returns has an empty name and uuid,
\* absent due and completion dates (the getters return the null sentinel) and
\* an empty label sequence.
C4_NewItemDefaults ==
    [][\A a \in Addr :
          item_new(a) =>
             /\ ret' = RetItem(a)
             /\ status'[a] = "live"
             /\ items'[a].uuid = <<>>
             /\ items'[a].name = <<>>
             /\ string_to_c_char(items'[a].name) = <<>>
             /\ ObservedDueDate(items'[a]) = None
             /\ ObservedCompletionDate(items'[a]) = None
             /\ bufs'[items'[a].labels.buf] = Buf(<<>>)]_vars

\* A handle was just returned for a default item while another item holds a
\* name, both dates and a label.
C4_Witness ==
    \E a \in Addr, b \in Addr :
       /\ a # b /\ ret = RetItem(a) /\ IsLive(a) /\ IsLive(b)
       /\ items[a].name = <<>> /\ items[a].due_date = None
       /\ items[b].name # <<>> /\ items[b].due_date # None
       /\ items[b].completion_date # None /\ Elems(items[b].labels) # <<>>

\* C5: label_at(seq, i) with i below the number of elements of seq returns a
\* copy of the i-th element and leaves the sequence as it was; with i at or
\* past it the call faults and returns no label.
C5_LabelAtBounds ==
    [][\A s \in SeqAddr, i \in 0..MaxIndex :
          item_label_at(s, i) =>
             LET elems == Elems(seqs[s].vec) IN
                IF i < Len(elems)
                THEN /\ ret' = RetLabel(elems[i + 1])
                     /\ fault' = NoFault
                     /\ UNCHANGED <<seqs, bufs>>
                ELSE /\ fault' = "item_label_at"
                     /\ ret' = NoRet]_vars

\* item_label_at faulted on a sequence of two labels.
C5_Witness ==
    /\ fault = "item_label_at"
    /\ \E s \in SeqAddr : SeqLive(s)
    /\ \A s \in SeqAddr : SeqLive(s) => Elems(seqs[s].vec) = <<"work", "home">>

C7_DatesIndependent ==
    [][\A h \in Addr, p \in DatePtrs :
          /\ item_set_due_date(h, p)
                => items'[h].completion_date = items[h].completion_date
          /\ item_set_completion_date(h, p)
                => items'[h].due_date = items[h].due_date]_vars

\* A setter just returned on an item whose two dates are set and differ.
C7_Witness ==
    \E h \in Addr :
       /\ IsLive(h) /\ ret = Void
       /\ items[h].due_date = Some(Timespec_new(1, 0))
       /\ items[h].completion_date = Some(Timespec_new(-1, 0))

\* C8: get_labels returns a new box with a buffer of its own holding the
\* item's labels; changing or releasing a sequence that was returned leaves
\* the labels of every item as they were, so the next get_labels returns the
\* item's labels again.
C8_LabelsAreCopied ==
    [][/\ \A h \in Addr, s \in SeqAddr :
             item_get_labels(h, s) =>
                /\ ret' = RetSeq(s)
                /\ seqs[s] = NoSeq
                /\ seqs'[s].vec.buf # items[h].labels.buf
                /\ bufs'[seqs'[s].vec.buf] = Buf(Elems(items[h].labels))
                /\ items'[h] = items[h]
                /\ bufs'[items[h].labels.buf] = bufs[items[h].labels.buf]
       /\ \A s \in SeqAddr :
             ((\E ls \in LabelVecs : CallerMutateSeq(s, ls)) \/ CallerReleaseSeq(s)) =>
                \A h \in Addr :
                   IsLive(h) =>
                      /\ items'[h] = items[h]
                      /\ bufs'[items[h].labels.buf] = bufs[items[h].labels.buf]]_vars

\* A sequence was returned, equal to the two labels of an item, while an
\* earlier sequence holds something else.
C8_Witness ==
    \E h \in Addr, s \in SeqAddr, s2 \in SeqAddr :
       /\ IsLive(h) /\ SeqLive(s) /\ SeqLive(s2) /\ s # s2
       /\ ret = RetSeq(s)
       /\ Elems(items[h].labels) = <<"work", "home">>
       /\ Elems(seqs[s].vec) = <<"work", "home">>
       /\ Elems(seqs[s2].vec) = <<"home">>

\* The C strings of CStrs that are well-formed UTF-8.
WellFormedCStrs == {<<>>, <<97>>, <<195, 169>>, <<97, 195, 169>>}

\* C9: set_name(h, s) then get_name(h) observes s when s is well formed and
\* the empty string when s does not decode; get_name never faults and returns
\* the empty string for a name that was never set.
C9_NameRoundTrip ==
    [][/\ \A h \in Addr, s \in CStrs :
             item_set_name(h, s) =>
                string_to_c_char(items'[h].name) = IF s \in WellFormedCStrs THEN s ELSE <<>>
       /\ \A h \in Addr :
             item_get_name(h) =>
                (fault' = NoFault /\ ret' = RetStr(string_to_c_char(items[h].name)))
       /\ \A a \in Addr :
             item_new(a) => string_to_c_char(items'[a].name) = <<>>]_vars

\* get_name returned the two-byte name that was set.
C9_Witness ==
    /\ ret = RetStr(<<195, 169>>)
    /\ \E h \in Addr : IsLive(h) /\ items[h].name = <<233>>

\* What the claims call the state of the item behind a handle.
ItemState(h) ==
    [item |-> items[h],
     status |-> status[h],
     labels |-> bufs[h]]

ReadOn(h) ==
    \/ item_get_name(h)
    \/ item_get_due_date(h)
    \/ item_get_completion_date(h)
    \/ \E s \in OneBox : item_get_labels(h, s)
    \/ item_labels_count(h)

WriteOn(h) ==
    \/ \E s \in FewCStrs : item_set_name(h, s)
    \/ \E p \in FewDatePtrs : item_set_due_date(h, p)
    \/ \E p \in FewDatePtrs : item_set_completion_date(h, p)

\* C10: a getter, setter or destroy on a live handle h leaves the item and
\* the liveness of every other handle unchanged, and a read accessor leaves
\* h's own item unchanged and h live.  Stated from the item that changes: a
\* step that changes the item behind h2 is no call on another live handle,
\* and no read accessor on h2.
C10_Frame ==
    [][\A h2 \in Addr :
          ItemState(h2)' # ItemState(h2) =>
             /\ \A h \in Addr \ {h2} :
                   ~(IsLive(h) /\ (ReadOn(h) \/ WriteOn(h) \/ item_destroy(h)))
             /\ ~(IsLive(h2) /\ ReadOn(h2))]_vars

\* A date getter just returned while two live items differ in every field.
C10_Witness ==
    \E h \in Addr, h2 \in Addr :
       /\ IsLive(h) /\ IsLive(h2) /\ ret.kind = "i64_ptr"
       /\ items[h].name # items[h2].name
       /\ items[h].due_date # items[h2].due_date
       /\ items[h].completion_date # items[h2].completion_date
       /\ Elems(items[h].labels) # Elems(items[h2].labels)

====
